---- MODULE Spec2Model ----
(***************************************************************************)
(* A model of src/src/generate_pitch.py: one run of main(), statement by   *)
(* statement, from pd.read_csv to prs.save, together with the pure helpers *)
(* it calls (scale_to_bn, the cell formatting of add_table, the statistics *)
(* of add_val_summary).                                                    *)
(*                                                                         *)
(* Conventions.                                                            *)
(*  - A cell of a data frame is a record [t, n, s]: t is the Python type   *)
(*    of the value ("str", "int" for numpy.int64, "float", and the three   *)
(*    non-finite floats "nan", "inf", "ninf"); n is the number; s is the   *)
(*    text, a tuple of one-character strings.                              *)
(*  - A finite float is held exactly, as an integer count of thousandths   *)
(*    (10.0 is 10000).  The inputs range over values for which every       *)
(*    result of the program (x/1000, the mean of two entries, a quarter    *)
(*    interpolation between two entries) is again a whole number of        *)
(*    thousandths, and for which a rounding tie of the one-decimal format  *)
(*    is exact in binary (x.25, x.75).  IEEE rounding and overflow are not *)
(*    modelled.                                                            *)
(*  - Column names are tuples of characters, because add_table decides     *)
(*    the format of a cell by substring tests on the column name.          *)
(*  - The two non-ASCII characters of the program's literals are written   *)
(*    in ASCII: the en dash as "-", the almost-equal sign as "~=".         *)
(***************************************************************************)
EXTENDS Integers, Sequences, FiniteSets, TLC

VARIABLES
    pc,         \* the statement of main() that runs next, "done" or "failed"
    err,        \* the exception that ended the run ("" while none)
    failed_at,  \* the value of pc at which the exception was raised
    df,         \* main: df, the frame pd.read_csv returned
    df_disp,    \* main: df_disp
    df_tbl,     \* main: df_tbl
    df_bar,     \* main: df_bar
    bar_input,  \* the (Company, EV_EBITDA) rows handed to plt.bar
    df_sum,     \* add_val_summary: rows, the frame df_sum is built from
    prs,        \* the slides of the Presentation, in the order added
    dir_made,   \* os.makedirs has run for the output directory
    files       \* the artifacts written to disk by this run

vars == <<pc, err, failed_at, df, df_disp, df_tbl, df_bar, bar_input, df_sum,
          prs, dir_made, files>>

\* The largest number of data rows of a dataset.
MaxRows == 3

-----------------------------------------------------------------------------
(* Python values *)

PyStr(cs)   == [t |-> "str",   n |-> 0, s |-> cs]
NpInt(k)    == [t |-> "int",   n |-> k, s |-> <<>>]
PyFloat(m)  == [t |-> "float", n |-> m, s |-> <<>>]
NaN         == [t |-> "nan",   n |-> 0, s |-> <<>>]
PInf        == [t |-> "inf",   n |-> 0, s |-> <<>>]
NInf        == [t |-> "ninf",  n |-> 0, s |-> <<>>]
\* An exception in flight, as the value of the expression that raised it.
Raised(e)   == [t |-> "raise", n |-> 0, s |-> <<e>>]

\* isinstance(val, float): numpy.float64 is a float, numpy.int64 and str are not.
IsFloat(v) == v.t \in {"float", "nan", "inf", "ninf"}

RECURSIVE Join(_)
\* The text of a tuple of characters.
Join(cs) == IF cs = <<>> THEN "" ELSE Head(cs) \o Join(Tail(cs))

\* Python's `sub in name` on strings.
Contains(sub, name) ==
    \E i \in 1..(Len(name) - Len(sub) + 1) : SubSeq(name, i, i + Len(sub) - 1) = sub

Digits == <<"0", "1", "2", "3", "4", "5", "6", "7", "8", "9">>

DigitValue(c) == (CHOOSE i \in 1..10 : Digits[i] = c) - 1

IsDigit(c) == \E i \in 1..10 : Digits[i] = c

RECURSIVE DecimalValue(_)
\* The number a string of decimal digits spells.
DecimalValue(cs) ==
    IF cs = <<>> THEN 0
    ELSE 10 * DecimalValue(SubSeq(cs, 1, Len(cs) - 1)) + DigitValue(cs[Len(cs)])

\* float(x).  A str converts when it is a decimal numeral; the texts of the
\* model hold no sign, point, exponent, blank or underscore and spell no
\* "inf"/"nan", so every other text raises ValueError.
float(x) ==
    CASE x.t = "int" -> PyFloat(1000 * x.n)
      [] x.t = "str" ->
            IF x.s # <<>> /\ \A i \in 1..Len(x.s) : IsDigit(x.s[i])
            THEN PyFloat(1000 * DecimalValue(x.s))
            ELSE Raised("ValueError")
      [] OTHER -> x

\* f / 1000.0 on a float.
DivBy1000(f) == IF f.t = "float" THEN PyFloat(f.n \div 1000) ELSE f

\* A mutant of scale_to_bn: the conversion without its try/except.
scale_to_bn_unguarded(x_m) ==
    LET f == float(x_m) IN IF f.t = "raise" THEN f ELSE DivBy1000(f)

scale_to_bn(x_m) ==
    LET f == float(x_m) IN IF f.t = "raise" THEN x_m ELSE DivBy1000(f)

-----------------------------------------------------------------------------
(* Column names *)

COMPANY       == <<"C","o","m","p","a","n","y">>
TICKER        == <<"T","i","c","k","e","r">>
SECTOR        == <<"S","e","c","t","o","r">>
EV_USD_m      == <<"E","V","_","U","S","D","_","m">>
EBITDA_USD_m  == <<"E","B","I","T","D","A","_","U","S","D","_","m">>
EV_EBITDA     == <<"E","V","_","E","B","I","T","D","A">>
PE            == <<"P","E">>
REV_GROWTH    == <<"R","e","v","_","G","r","o","w","t","h","_","%">>
EBITDA_MARGIN == <<"E","B","I","T","D","A","_","M","a","r","g","i","n","_","%">>
EV_USD_bn     == <<"E","V","_","U","S","D","_","b","n">>
EBITDA_USD_bn == <<"E","B","I","T","D","A","_","U","S","D","_","b","n">>
EV_BN_LABEL     == <<"E","V"," ","(","U","S","D"," ","b","n",")">>
EBITDA_BN_LABEL == <<"E","B","I","T","D","A"," ","(","U","S","D"," ","b","n",")">>

\* The columns of the input file (spec section 3), in file order.
Schema == <<COMPANY, TICKER, SECTOR, EV_USD_m, EBITDA_USD_m, EV_EBITDA, PE,
            REV_GROWTH, EBITDA_MARGIN>>

Range(f) == {f[i] : i \in DOMAIN f}

\* A frame: its column names in order, and its rows, each a function from
\* the column names to cells.
Frame(columns, data) == [columns |-> columns, data |-> data]

NoFrame == Frame(<<>>, <<>>)

\* df[c] for a column the frame lacks raises KeyError.
HasColumn(frame, c) == c \in Range(frame.columns)

NRows(frame) == Len(frame.data)

\* frame[c], the cells of one column in row order.
Column(frame, c) == [i \in 1..NRows(frame) |-> frame.data[i][c]]

\* frame[c] = f for a column the frame lacks: the column is appended.
AddColumn(frame, c, f) ==
    Frame(frame.columns \o <<c>>,
          [i \in 1..NRows(frame) |->
              [k \in DOMAIN frame.data[i] \cup {c} |->
                  IF k = c THEN f[i] ELSE frame.data[i][k]]])

\* The frame with the cells of column c replaced (used to build inputs).
SetColumn(frame, c, f) ==
    Frame(frame.columns,
          [i \in 1..NRows(frame) |-> [frame.data[i] EXCEPT ![c] = f[i]]])

\* The frame without column c (used to build inputs).
DropColumn(frame, c) ==
    Frame(SelectSeq(frame.columns, LAMBDA x : x # c),
          [i \in 1..NRows(frame) |->
              [k \in DOMAIN frame.data[i] \ {c} |-> frame.data[i][k]]])

-----------------------------------------------------------------------------
(* The datasets pd.read_csv can return.  A column is int64 (every cell an  *)
(* int), float64 (floats, NaN for a missing cell, +-inf) or object (texts, *)
(* NaN for a missing cell).  The four ratio columns are numeric in every   *)
(* dataset (the program trusts the reader's column types for them); the    *)
(* two USD_m columns may also hold text.                                   *)

Letters == <<"A", "B", "C", "D", "E", "F", "G", "H">>

\* Row i of the baseline dataset; rows 1 and 2 are the rows A and B of the
\* scenario of spec section 8.
BaseRow(i) ==
    LET odd == i % 2 = 1 IN
    [c \in Range(Schema) |->
        CASE c = COMPANY       -> PyStr(<<Letters[i]>>)
          [] c = TICKER        -> PyStr(<<"T", Letters[i]>>)
          [] c = SECTOR        -> PyStr(<<"S", "W">>)
          [] c = EV_USD_m      -> NpInt(IF odd THEN 5000 ELSE 2000)
          [] c = EBITDA_USD_m  -> NpInt(IF odd THEN 500 ELSE 100)
          [] c = EV_EBITDA     -> PyFloat(10000 * i)
          [] c = PE            -> PyFloat(20000 * i)
          [] c = REV_GROWTH    -> PyFloat(IF odd THEN 15000 ELSE 5000)
          [] c = EBITDA_MARGIN -> PyFloat(IF odd THEN 30000 ELSE 10000)]

Base(n) == Frame(Schema, [i \in 1..n |-> BaseRow(i)])

\* The cells of a float64 ratio column: 10.0, 20.0, 40.0, missing, +inf, -inf.
MultipleCells == {PyFloat(10000), PyFloat(20000), PyFloat(40000), NaN, PInf, NInf}

\* The cells of an int64 ratio column.
IntCells == {NpInt(10), NpInt(20)}

\* The cells of an object USD_m column: the texts "5000", "250" and "TBD",
\* and a missing cell.
TextCells == {PyStr(<<"5", "0", "0", "0">>), PyStr(<<"2", "5", "0">>),
              PyStr(<<"T", "B", "D">>), NaN}

\* The cells of a float64 USD_m column: 5000.0, 250.0, missing.
FloatMCells == {PyFloat(5000000), PyFloat(250000), NaN}

\* A column is read as object only when some cell is no number.
IsObjectColumn(f) ==
    \E i \in DOMAIN f : f[i].t = "str" /\ float(f[i]).t = "raise"

Variants(c, cells) ==
    UNION {{SetColumn(Base(n), c, f) : f \in [1..n -> cells]} : n \in 0..MaxRows}

Datasets ==
    {Base(n) : n \in 0..MaxRows}
    \cup {DropColumn(Base(n), c) : n \in 0..MaxRows, c \in Range(Schema)}
    \cup Variants(EV_EBITDA, MultipleCells)
    \cup Variants(PE, MultipleCells)
    \cup UNION {Variants(c, IntCells) : c \in {EV_EBITDA, PE, REV_GROWTH, EBITDA_MARGIN}}
    \cup UNION {Variants(c, FloatMCells) : c \in {EV_USD_m, EBITDA_USD_m}}
    \cup UNION {{d \in Variants(c, TextCells) : IsObjectColumn(Column(d, c))}
                   : c \in {EV_USD_m, EBITDA_USD_m}}

-----------------------------------------------------------------------------
(* Numbers *)

\* Series.astype(float) on a numeric cell.
AsFloat(v) == IF v.t = "int" THEN PyFloat(1000 * v.n) ELSE v

\* a < b on floats other than NaN.
LessThan(a, b) ==
    CASE a.t = "inf"  -> FALSE
      [] a.t = "ninf" -> b.t # "ninf"
      [] b.t = "inf"  -> TRUE
      [] b.t = "ninf" -> FALSE
      [] OTHER        -> a.n < b.n

\* (a + b) / 2 on floats other than NaN.
Mean2(a, b) ==
    CASE a.t = "float" /\ b.t = "float" -> PyFloat((a.n + b.n) \div 2)
      [] a.t = "float" -> b
      [] b.t = "float" -> a
      [] a.t = b.t     -> a
      [] OTHER         -> NaN

\* s with v put after the entries that are not above it; s is ascending.
Insert(v, s) ==
    LET k == Cardinality({i \in 1..Len(s) : ~LessThan(v, s[i])})
    IN  SubSeq(s, 1, k) \o <<v>> \o SubSeq(s, k + 1, Len(s))

RECURSIVE SortAsc(_)
\* The entries of s in ascending order.
SortAsc(s) == IF s = <<>> THEN <<>> ELSE Insert(Head(s), SortAsc(Tail(s)))

\* The median of the entries of s, none of them NaN: the middle order
\* statistic, or the mean of the two middle ones.
MedianOf(s) ==
    LET a == SortAsc(s)
        n == Len(a)
    IN  IF n = 0 THEN NaN
        ELSE IF n % 2 = 1 THEN a[(n + 1) \div 2]
        ELSE Mean2(a[n \div 2], a[n \div 2 + 1])

\* A mutant of Percentile: no interpolation, the order statistic just below
\* the position is returned (interpolation "lower").
Percentile_lower(s, q) ==
    LET a  == SortAsc(s)
        lo == (q * (Len(a) - 1)) \div 100
    IN  a[lo + 1]

\* np.nanpercentile(s, q) on finite entries: linear interpolation between the
\* order statistics around position q/100 * (n - 1), counted from 0.
Percentile(s, q) ==
    LET a   == SortAsc(s)
        n   == Len(a)
        lo  == (q * (n - 1)) \div 100
        rem == (q * (n - 1)) % 100
        hi  == IF lo + 1 < n THEN lo + 1 ELSE lo
    IN  PyFloat(a[lo + 1].n + ((a[hi + 1].n - a[lo + 1].n) * rem) \div 100)

\* A mutant of pandas_median: non-finite entries are dropped with the
\* missing ones, as the summarizer does.
pandas_median_finite_only(col) ==
    MedianOf(SelectSeq([i \in DOMAIN col |-> AsFloat(col[i])],
                       LAMBDA v : v.t = "float"))

\* Series.median() (skipna=True): the median of the entries that are not
\* missing; +-inf are entries like any other.
pandas_median(col) ==
    MedianOf(SelectSeq([i \in DOMAIN col |-> AsFloat(col[i])],
                       LAMBDA v : v.t # "nan"))

-----------------------------------------------------------------------------
(* Text *)

\* f"{val:.1f}" on a float: the nearest tenth, a tie going to the even
\* tenth, with the sign kept; nan and the infinities are spelled out.
FormatF1(val) ==
    CASE val.t = "nan"  -> "nan"
      [] val.t = "inf"  -> "inf"
      [] val.t = "ninf" -> "-inf"
      [] OTHER ->
            LET a      == IF val.n < 0 THEN -val.n ELSE val.n
                k      == a \div 100
                r      == a % 100
                tenths == IF r > 50 \/ (r = 50 /\ k % 2 = 1) THEN k + 1 ELSE k
            IN  (IF val.n < 0 THEN "-" ELSE "")
                    \o ToString(tenths \div 10) \o "." \o ToString(tenths % 10)

\* str(val) on a str or a numpy.int64.
str(val) == IF val.t = "str" THEN Join(val.s) ELSE ToString(val.n)

MARGIN     == <<"M","a","r","g","i","n">>
GROWTH     == <<"G","r","o","w","t","h">>
EV_SLASH   == <<"E","V","/","E","B","I","T","D","A">>
P_SLASH_E  == <<"P","/","E">>

\* The text add_table puts in a data cell of column col.
CellText(col, val) ==
    IF IsFloat(val)
    THEN IF Contains(MARGIN, col) \/ Contains(GROWTH, col)
         THEN FormatF1(val) \o "%"
         ELSE IF Contains(EV_SLASH, col) \/ Contains(EV_EBITDA, col)
                 \/ Contains(P_SLASH_E, col) \/ col = PE
         THEN FormatF1(val) \o "x"
         ELSE FormatF1(val)
    ELSE str(val)

-----------------------------------------------------------------------------
(* Slides *)

Slide(kind, title, lines, grid, img, caption) ==
    [kind |-> kind, title |-> title, lines |-> lines, grid |-> grid,
     img |-> img, caption |-> caption]

add_title_slide(title, subtitle) ==
    Slide("title", title, <<subtitle>>, <<>>, "", "")

add_bullets_slide(title, bullets) ==
    Slide("bullets", title, bullets, <<>>, "", "")

\* The table slide: a header row of the column names, then one row of
\* formatted cells per row of the frame.
add_table(title, frame) ==
    Slide("table", title, <<>>,
          <<[j \in 1..Len(frame.columns) |-> Join(frame.columns[j])]>>
          \o [i \in 1..NRows(frame) |->
                 [j \in 1..Len(frame.columns) |->
                     CellText(frame.columns[j], frame.data[i][frame.columns[j]])]],
          "", "")

add_picture(title, img_path, caption) ==
    Slide("picture", title, <<>>, <<>>, img_path, caption)

\* args.title and the file names derived from args.out, at their defaults.
DeckTitle == "Comparable Companies - Deck"
Chart1 == "ev_ebitda_chart.png"
Chart2 == "pe_vs_growth.png"
Deck   == "pitch_comps.pptx"

-----------------------------------------------------------------------------
(* add_val_summary *)

METRIC == <<"M","e","t","r","i","c">>
MEDIAN_X == <<"M","e","d","i","a","n"," ","(","x",")">>
P25_X == <<"2","5","t","h"," ","(","x",")">>
P75_X == <<"7","5","t","h"," ","(","x",")">>

\* df[c].astype(float).replace([inf, -inf], nan).dropna()
ValidSeries(col) ==
    SelectSeq([i \in DOMAIN col |-> AsFloat(col[i])], LAMBDA v : v.t = "float")

\* A mutant of SummaryRow: an empty series is summarized as zeros.
SummaryRow_zero_when_empty(name, s) ==
    IF Len(s) = 0
    THEN (METRIC :> PyStr(name) @@ MEDIAN_X :> PyFloat(0) @@ P25_X :> PyFloat(0)
            @@ P75_X :> PyFloat(0))
    ELSE (METRIC :> PyStr(name) @@ MEDIAN_X :> MedianOf(s)
            @@ P25_X :> Percentile(s, 25) @@ P75_X :> Percentile(s, 75))

\* One row [name, med, p25, p75] of the summary.
SummaryRow(name, s) ==
    IF Len(s) = 0
    THEN (METRIC :> PyStr(name) @@ MEDIAN_X :> NaN @@ P25_X :> NaN @@ P75_X :> NaN)
    ELSE (METRIC :> PyStr(name) @@ MEDIAN_X :> MedianOf(s)
            @@ P25_X :> Percentile(s, 25) @@ P75_X :> Percentile(s, 75))

\* The frame df_sum: one row per metric, EV/EBITDA first.
SummaryFrame(frame) ==
    Frame(<<METRIC, MEDIAN_X, P25_X, P75_X>>,
          <<SummaryRow(EV_SLASH, ValidSeries(Column(frame, EV_EBITDA))),
            SummaryRow(P_SLASH_E, ValidSeries(Column(frame, PE)))>>)

-----------------------------------------------------------------------------
(* main() *)

Init ==
    /\ pc = "read_csv"
    /\ err = ""
    /\ failed_at = ""
    /\ df = NoFrame
    /\ df_disp = NoFrame
    /\ df_tbl = NoFrame
    /\ df_bar = NoFrame
    /\ bar_input = <<>>
    /\ df_sum = NoFrame
    /\ prs = <<>>
    /\ dir_made = FALSE
    /\ files = {}

\* The statement at pc completed; control moves to the next one.
Goto(next) == pc' = next /\ UNCHANGED <<err, failed_at>>

\* The statement at pc raised e: nothing catches it, the run ends.
Fail(e) ==
    /\ pc' = "failed"
    /\ err' = e
    /\ failed_at' = pc
    /\ UNCHANGED <<df, df_disp, df_tbl, df_bar, bar_input, df_sum, prs, dir_made, files>>

\* As Fail, for a statement that was writing the file f: the file may have
\* been created before the failure.
FailWriting(e, f) ==
    /\ pc' = "failed"
    /\ err' = e
    /\ failed_at' = pc
    /\ \E left \in BOOLEAN : files' = IF left THEN files \cup {f} ELSE files
    /\ UNCHANGED <<df, df_disp, df_tbl, df_bar, bar_input, df_sum, prs, dir_made>>

\* df = pd.read_csv(args.csv)
ReadCsv ==
    /\ pc = "read_csv"
    /\ \/ /\ \E d \in Datasets : df' = d
          /\ Goto("copy")
          /\ UNCHANGED <<df_disp, df_tbl, df_bar, bar_input, df_sum, prs, dir_made, files>>
       \/ Fail("FileNotFoundError")

\* df_disp = df.copy()
CopyFrame ==
    /\ pc = "copy"
    /\ df_disp' = df
    /\ Goto("scale_ev")
    /\ UNCHANGED <<df, df_tbl, df_bar, bar_input, df_sum, prs, dir_made, files>>

\* df_disp[dst] = df_disp[src].apply(scale_to_bn): KeyError without the
\* column src; an exception scale_to_bn lets out ends the run.
ScaleColumn(src, dst, next) ==
    IF ~HasColumn(df_disp, src) THEN Fail("KeyError")
    ELSE LET out == [i \in 1..NRows(df_disp) |-> scale_to_bn(df_disp.data[i][src])]
         IN  IF \E i \in DOMAIN out : out[i].t = "raise" THEN Fail("ValueError")
             ELSE /\ df_disp' = AddColumn(df_disp, dst, out)
                  /\ Goto(next)
                  /\ UNCHANGED <<df, df_tbl, df_bar, bar_input, df_sum, prs, dir_made, files>>

ScaleEv == pc = "scale_ev" /\ ScaleColumn(EV_USD_m, EV_USD_bn, "scale_ebitda")

ScaleEbitda == pc = "scale_ebitda" /\ ScaleColumn(EBITDA_USD_m, EBITDA_USD_bn, "select")

\* cols, the selection of main.
TableColumns == <<COMPANY, TICKER, SECTOR, EV_USD_bn, EBITDA_USD_bn, EV_EBITDA, PE,
                  REV_GROWTH, EBITDA_MARGIN>>

\* rename(columns={"EV_USD_bn": "EV (USD bn)", "EBITDA_USD_bn": "EBITDA (USD bn)"})
Rename(c) ==
    IF c = EV_USD_bn THEN EV_BN_LABEL
    ELSE IF c = EBITDA_USD_bn THEN EBITDA_BN_LABEL
    ELSE c

\* frame[cols].rename(...), every column of cols being in the frame.
ProjectTable(frame, cols) ==
    Frame([j \in 1..Len(cols) |-> Rename(cols[j])],
          [i \in 1..NRows(frame) |->
              [k \in {Rename(c) : c \in Range(cols)} |->
                  frame.data[i][CHOOSE c \in Range(cols) : Rename(c) = k]]])

\* A mutant of SelectColumns: a column the frame lacks is left out of the
\* selection instead of raising (as DataFrame.filter(items=cols) does).
SelectColumns_lenient ==
    /\ pc = "select"
    /\ df_tbl' = ProjectTable(df_disp,
                     SelectSeq(TableColumns, LAMBDA c : HasColumn(df_disp, c)))
    /\ Goto("sort")
    /\ UNCHANGED <<df, df_disp, df_bar, bar_input, df_sum, prs, dir_made, files>>

\* A mutant of SelectColumns: every column of df_disp is kept, in its order.
SelectColumns_all ==
    /\ pc = "select"
    /\ IF \E c \in Range(TableColumns) : ~HasColumn(df_disp, c) THEN Fail("KeyError")
       ELSE /\ df_tbl' = ProjectTable(df_disp, df_disp.columns)
            /\ Goto("sort")
            /\ UNCHANGED <<df, df_disp, df_bar, bar_input, df_sum, prs, dir_made, files>>

\* df_tbl = df_disp[cols].rename(...): KeyError when a column is missing.
SelectColumns ==
    /\ pc = "select"
    /\ IF \E c \in Range(TableColumns) : ~HasColumn(df_disp, c) THEN Fail("KeyError")
       ELSE /\ df_tbl' = ProjectTable(df_disp, TableColumns)
            /\ Goto("sort")
            /\ UNCHANGED <<df, df_disp, df_bar, bar_input, df_sum, prs, dir_made, files>>

\* The row orders sort_values(ascending=False) can return for the key column
\* col.  Rows with a missing key go last, in their input order
\* (na_position="last").  The other rows are in descending key order; the
\* default kind="quicksort" is not a stable sort, so rows with equal keys may
\* come out in any order.
SortOrders(col) ==
    {p \in Permutations(DOMAIN col) :
        \A i, j \in DOMAIN col :
            i < j =>
                LET a == AsFloat(col[p[i]])
                    b == AsFloat(col[p[j]])
                IN  IF a.t = "nan" THEN b.t = "nan" /\ p[i] < p[j]
                    ELSE b.t = "nan" \/ ~LessThan(a, b)}

\* df_bar = df.sort_values("EV_EBITDA", ascending=False).reset_index(drop=True)
SortValues ==
    /\ pc = "sort"
    /\ IF ~HasColumn(df, EV_EBITDA) THEN Fail("KeyError")
       ELSE /\ \E p \in SortOrders(Column(df, EV_EBITDA)) :
                  df_bar' = Frame(df.columns, [i \in 1..NRows(df) |-> df.data[p[i]]])
            /\ Goto("makedirs")
            /\ UNCHANGED <<df, df_disp, df_tbl, bar_input, df_sum, prs, dir_made, files>>

\* os.makedirs(os.path.dirname(args.out), exist_ok=True)
MakeDirs ==
    /\ pc = "makedirs"
    /\ \/ /\ dir_made' = TRUE
          /\ Goto("chart1")
          /\ UNCHANGED <<df, df_disp, df_tbl, df_bar, bar_input, df_sum, prs, files>>
       \/ Fail("OSError")

\* build_bar_chart_ev_ebitda(df_bar, chart1)
BuildBarChart ==
    /\ pc = "chart1"
    /\ IF ~HasColumn(df_bar, COMPANY) \/ ~HasColumn(df_bar, EV_EBITDA) THEN Fail("KeyError")
       ELSE \/ /\ bar_input' = [i \in 1..NRows(df_bar) |->
                                   [company |-> df_bar.data[i][COMPANY],
                                    value   |-> df_bar.data[i][EV_EBITDA]]]
               /\ files' = files \cup {Chart1}
               /\ Goto("chart2")
               /\ UNCHANGED <<df, df_disp, df_tbl, df_bar, df_sum, prs, dir_made>>
            \/ FailWriting("RendererError", Chart1)

\* build_scatter_pe_growth(df, chart2)
BuildScatter ==
    /\ pc = "chart2"
    /\ IF ~HasColumn(df, REV_GROWTH) \/ ~HasColumn(df, PE) THEN Fail("KeyError")
       ELSE \/ /\ files' = files \cup {Chart2}
               /\ Goto("presentation")
               /\ UNCHANGED <<df, df_disp, df_tbl, df_bar, bar_input, df_sum, prs, dir_made>>
            \/ FailWriting("RendererError", Chart2)

\* prs = Presentation()
NewPresentation ==
    /\ pc = "presentation"
    /\ prs' = <<>>
    /\ Goto("title")
    /\ UNCHANGED <<df, df_disp, df_tbl, df_bar, bar_input, df_sum, dir_made, files>>

\* A mutant of AddSlide: the deck is saved each time a slide is added.
AddSlide_autosave(slide, next) ==
    \/ /\ prs' = Append(prs, slide)
       /\ files' = files \cup {Deck}
       /\ Goto(next)
       /\ UNCHANGED <<df, df_disp, df_tbl, df_bar, bar_input, df_sum, dir_made>>
    \/ Fail("RendererError")

\* prs.slides.add_slide(...) with the slide filled in, or a failure of the
\* document library.
AddSlide(slide, next) ==
    \/ /\ prs' = Append(prs, slide)
       /\ Goto(next)
       /\ UNCHANGED <<df, df_disp, df_tbl, df_bar, bar_input, df_sum, dir_made, files>>
    \/ Fail("RendererError")

\* add_title_slide(prs, args.title, "Auto-generated from comps CSV")
TitleSlide ==
    /\ pc = "title"
    /\ AddSlide(add_title_slide(DeckTitle, "Auto-generated from comps CSV"), "takeaways")

\* The first bullet of the Key Takeaways slide.
TakeawayLine(frame) ==
    "Median EV/EBITDA ~= " \o FormatF1(pandas_median(Column(frame, EV_EBITDA)))
        \o "x; P/E ~= " \o FormatF1(pandas_median(Column(frame, PE))) \o "x"

\* add_bullets_slide(prs, "Key Takeaways", [...])
TakeawaysSlide ==
    /\ pc = "takeaways"
    /\ IF ~HasColumn(df, EV_EBITDA) \/ ~HasColumn(df, PE) THEN Fail("KeyError")
       ELSE AddSlide(add_bullets_slide("Key Takeaways",
                <<TakeawayLine(df),
                  "Prefer medians & IQR (25-75th) over means due to outliers",
                  "Growth/margins cluster in Software/Semis within this sample">>),
                "comps_table")

\* add_table(prs, "Comparable Companies Table", df_tbl)
CompsTableSlide ==
    /\ pc = "comps_table"
    /\ AddSlide(add_table("Comparable Companies Table", df_tbl), "picture1")

\* add_picture(prs, "EV/EBITDA - Distribution", chart1)
Picture1 ==
    /\ pc = "picture1"
    /\ AddSlide(add_picture("EV/EBITDA - Distribution", Chart1, ""), "picture2")

\* add_picture(prs, "P/E vs Revenue Growth", chart2, caption=...)
Picture2 ==
    /\ pc = "picture2"
    /\ AddSlide(add_picture("P/E vs Revenue Growth", Chart2,
                    "Illustrative only; ensure sector comparability."),
                "val_summary")

\* add_val_summary, up to df_sum = pd.DataFrame(rows, ...)
ValSummary ==
    /\ pc = "val_summary"
    /\ IF ~HasColumn(df, EV_EBITDA) \/ ~HasColumn(df, PE) THEN Fail("KeyError")
       ELSE /\ df_sum' = SummaryFrame(df)
            /\ Goto("val_summary_table")
            /\ UNCHANGED <<df, df_disp, df_tbl, df_bar, bar_input, prs, dir_made, files>>

\* add_val_summary: add_table(prs, "Valuation Summary (EV/EBITDA & P/E)", df_sum)
ValSummaryTable ==
    /\ pc = "val_summary_table"
    /\ AddSlide(add_table("Valuation Summary (EV/EBITDA & P/E)", df_sum), "methodology")

\* A mutant of MethodologySlide: the slide is not added.
MethodologySlide_skipped ==
    /\ pc = "methodology"
    /\ Goto("save")
    /\ UNCHANGED <<df, df_disp, df_tbl, df_bar, bar_input, df_sum, prs, dir_made, files>>

\* add_bullets_slide(prs, "Methodology & Sources", [...])
MethodologySlide ==
    /\ pc = "methodology"
    /\ AddSlide(add_bullets_slide("Methodology & Sources",
            <<"Universe: " \o ToString(NRows(df))
                  \o " listed software comps; currency: USD; base: TTM.",
              "Valuation: EV/EBITDA & P/E; medians and interquartile range (25-75th).",
              "Outliers reviewed; results illustrative. Sources: public filings & aggregators.">>),
            "save")

\* prs.save(args.out); print(...)
Save ==
    /\ pc = "save"
    /\ \/ /\ files' = files \cup {Deck}
          /\ Goto("done")
          /\ UNCHANGED <<df, df_disp, df_tbl, df_bar, bar_input, df_sum, prs, dir_made>>
       \/ FailWriting("OSError", Deck)

Next ==
    \/ ReadCsv
    \/ CopyFrame
    \/ ScaleEv
    \/ ScaleEbitda
    \/ SelectColumns
    \/ SortValues
    \/ MakeDirs
    \/ BuildBarChart
    \/ BuildScatter
    \/ NewPresentation
    \/ TitleSlide
    \/ TakeawaysSlide
    \/ CompsTableSlide
    \/ Picture1
    \/ Picture2
    \/ ValSummary
    \/ ValSummaryTable
    \/ MethodologySlide
    \/ Save

Spec == Init /\ [][Next]_vars

-----------------------------------------------------------------------------
(* Properties *)

\* The frame read_csv returned is in df.
Loaded == pc # "read_csv" /\ failed_at # "read_csv"

\* The kind and title of every slide added so far, in order.
Outline == [i \in 1..Len(prs) |-> <<prs[i].kind, prs[i].title>>]

FullOutline ==
    << <<"title",   DeckTitle>>,
       <<"bullets", "Key Takeaways">>,
       <<"table",   "Comparable Companies Table">>,
       <<"picture", "EV/EBITDA - Distribution">>,
       <<"picture", "P/E vs Revenue Growth">>,
       <<"table",   "Valuation Summary (EV/EBITDA & P/E)">>,
       <<"bullets", "Methodology & Sources">> >>

\* C1: in every run that reaches prs.save, the slides added are exactly
\* Title, Key Takeaways, Comparable Companies table, EV/EBITDA picture,
\* P/E vs Growth picture, Valuation Summary table, Methodology, in this
\* order, whatever the dataset; and before that the slides are a prefix of it.
C1_SlideOrder ==
    /\ (pc \in {"save", "done"} \/ failed_at = "save") => Outline = FullOutline
    /\ Len(prs) <= Len(FullOutline)
    /\ Outline = SubSeq(FullOutline, 1, Len(prs))

C1_Witness ==
    /\ pc = "done"
    /\ NRows(df) = 2
    /\ df.data[1][EV_EBITDA] = NaN
    /\ prs[7].lines[1] = "Universe: 2 listed software comps; currency: USD; base: TTM."

\* C2: for every column of the schema, a run on a dataset without it ends
\* with KeyError (the missing-column error) at one of the projection
\* statements, before os.makedirs: the run has created no directory and
\* written no chart and no deck.
C2_MissingColumnFailsEarly ==
    \A c \in Range(Schema) :
        (Loaded /\ ~HasColumn(df, c)) =>
            /\ pc \in {"copy", "scale_ev", "scale_ebitda", "select", "failed"}
            /\ pc = "failed" => err = "KeyError"
            /\ ~dir_made
            /\ files = {}

C2_Witness ==
    /\ pc = "failed"
    /\ err = "KeyError"
    /\ failed_at = "select"
    /\ ~HasColumn(df, PE)
    /\ NRows(df) = 2
    /\ ~dir_made
    /\ files = {}

\* C3: the deck is written only by prs.save, after all seven slides were
\* added: a run that failed at any statement before the save has written no
\* deck file.
C3_DeckOnlyAfterAllBlocks ==
    /\ (pc = "failed" /\ failed_at # "save") => Deck \notin files
    /\ Deck \in files => (Outline = FullOutline /\ (pc = "done" \/ failed_at = "save"))

C3_Witness ==
    /\ pc = "failed"
    /\ failed_at = "methodology"
    /\ Len(prs) = 6
    /\ Chart1 \in files
    /\ Deck \notin files

\* The columns the two rows of the summary are computed from.
MetricColumn == <<EV_EBITDA, PE>>

\* The entries of a column that are neither missing nor infinite, as floats.
FiniteEntries(col) ==
    SelectSeq([i \in DOMAIN col |-> AsFloat(col[i])],
              LAMBDA v : v.t \notin {"nan", "inf", "ninf"})

\* C4: a series with no valid entry (empty, or only NaN, +inf, -inf) is
\* summarized as undefined (NaN) for the median and both quartiles, never as
\* 0, and computing the summary does not raise.
C4_EmptySeriesUndefined ==
    /\ failed_at # "val_summary"
    /\ df_sum # NoFrame =>
          \A k \in 1..2 :
              FiniteEntries(Column(df, MetricColumn[k])) = <<>> =>
                  /\ df_sum.data[k][MEDIAN_X] = NaN
                  /\ df_sum.data[k][P25_X] = NaN
                  /\ df_sum.data[k][P75_X] = NaN

C4_Witness ==
    /\ pc = "val_summary_table"
    /\ Column(df, EV_EBITDA) = <<NaN, PInf, NInf>>
    /\ df_sum.data[1][MEDIAN_X] = NaN

\* The k-th smallest of the entries xs (k from 1), none of them NaN.
OrderStat(xs, k) ==
    CHOOSE v \in Range(xs) :
        /\ Cardinality({i \in DOMAIN xs : LessThan(xs[i], v)}) < k
        /\ k <= Cardinality({i \in DOMAIN xs : ~LessThan(v, xs[i])})

\* stat is the q-th percentile of the finite entries xs by linear
\* interpolation: with q/100 * (n - 1) = lo + rem/100, it lies rem/100 of the
\* way from order statistic lo to order statistic lo + 1 (counted from 0).
IsPercentile(xs, q, stat) ==
    LET n   == Len(xs)
        lo  == (q * (n - 1)) \div 100
        rem == (q * (n - 1)) % 100
        hi  == IF rem = 0 THEN lo ELSE lo + 1
    IN  /\ stat.t = "float"
        /\ 100 * stat.n = (100 - rem) * OrderStat(xs, lo + 1).n
                              + rem * OrderStat(xs, hi + 1).n

\* C5: for a series with at least one valid entry, the median and the
\* quartiles are the 50th, 25th and 75th percentiles, by linear
\* interpolation, of the valid entries only (NaN and +-inf dropped), and
\* 25th <= median <= 75th.
C5_QuartilesOrdered ==
    df_sum # NoFrame =>
        \A k \in 1..2 :
            LET xs == FiniteEntries(Column(df, MetricColumn[k]))
                r  == df_sum.data[k]
            IN  xs # <<>> =>
                    /\ IsPercentile(xs, 50, r[MEDIAN_X])
                    /\ IsPercentile(xs, 25, r[P25_X])
                    /\ IsPercentile(xs, 75, r[P75_X])
                    /\ r[P25_X].n <= r[MEDIAN_X].n
                    /\ r[MEDIAN_X].n <= r[P75_X].n

\* The series 10.0, inf, 20.0: median 15.0, quartiles 12.5 and 17.5.
C5_Witness ==
    /\ pc = "val_summary_table"
    /\ Column(df, EV_EBITDA) = <<PyFloat(10000), PInf, PyFloat(20000)>>
    /\ df_sum.data[1][MEDIAN_X] = PyFloat(15000)
    /\ df_sum.data[1][P25_X] = PyFloat(12500)
    /\ df_sum.data[1][P75_X] = PyFloat(17500)

\* The input row a bar came from (company names are distinct in the inputs).
InputRow(bar) == CHOOSE k \in 1..NRows(df) : df.data[k][COMPANY] = bar.company

\* C6: the rows handed to the bar chart are the input rows in descending
\* EV_EBITDA order, rows with equal EV_EBITDA in their input order.
C6_BarRowsStableDescending ==
    pc \in {"chart2", "presentation", "title", "takeaways", "comps_table", "picture1",
            "picture2", "val_summary", "val_summary_table", "methodology", "save", "done"} =>
        /\ Len(bar_input) = NRows(df)
        /\ \A k \in 1..NRows(df) : \E i \in 1..Len(bar_input) :
               InputRow(bar_input[i]) = k /\ bar_input[i].value = df.data[k][EV_EBITDA]
        /\ \A i, j \in 1..Len(bar_input) :
               i < j =>
                   LET a == AsFloat(bar_input[i].value)
                       b == AsFloat(bar_input[j].value)
                   IN  (a.t # "nan" /\ b.t # "nan") =>
                           /\ ~LessThan(a, b)
                           /\ a = b => InputRow(bar_input[i]) < InputRow(bar_input[j])

\* The text the format rules give a cell: a number, integer or float, by the
\* category of its column; a text verbatim.
CategoryText(col, val) ==
    IF val.t = "str" THEN Join(val.s)
    ELSE IF Contains(MARGIN, col) \/ Contains(GROWTH, col)
         THEN FormatF1(AsFloat(val)) \o "%"
    ELSE IF col = PE \/ Contains(EV_SLASH, col) \/ Contains(EV_EBITDA, col)
            \/ Contains(P_SLASH_E, col)
         THEN FormatF1(AsFloat(val)) \o "x"
    ELSE FormatF1(AsFloat(val))

\* C7: every data cell of the Comparable Companies table is formatted by
\* the category of its column (percentage, then multiple, then plain; text
\* verbatim), whether the column was read as integers or as floats.
C7_CellsFormattedByCategory ==
    Len(prs) >= 3 =>
        \A i \in 1..NRows(df_tbl) : \A j \in 1..Len(df_tbl.columns) :
            prs[3].grid[i + 1][j]
                = CategoryText(df_tbl.columns[j], df_tbl.data[i][df_tbl.columns[j]])

\* C8: the Comparable Companies table has one header row and one data row
\* per dataset row, in input order, and its columns are Company, Ticker,
\* Sector, EV (USD bn), EBITDA (USD bn), EV_EBITDA, PE, Rev_Growth_%,
\* EBITDA_Margin_%, in this order, without the raw USD_m columns.
C8_CompsTableShape ==
    Len(prs) >= 3 =>
        LET g == prs[3].grid IN
        /\ Len(g) = NRows(df) + 1
        /\ g[1] = <<"Company", "Ticker", "Sector", "EV (USD bn)", "EBITDA (USD bn)",
                    "EV_EBITDA", "PE", "Rev_Growth_%", "EBITDA_Margin_%">>
        /\ \A i \in 1..NRows(df) :
               /\ Len(g[i + 1]) = 9
               /\ g[i + 1][1] = Join(df.data[i][COMPANY].s)
               /\ g[i + 1][2] = Join(df.data[i][TICKER].s)
               /\ g[i + 1][3] = Join(df.data[i][SECTOR].s)

C8_Witness ==
    /\ Len(prs) >= 3
    /\ NRows(df) = 3
    /\ prs[3].grid[4][1] = "C"
    /\ prs[3].grid[2] = <<"A", "TA", "SW", "5.0", "0.5", "10.0x", "20.0x", "15.0%", "30.0%">>

\* dst holds src scaled: a number (an integer, a float, a missing cell)
\* divided by 1000 as a float, a text that is no numeral unchanged.
ScaledColumn(src, dst) ==
    HasColumn(df_disp, dst) =>
        \A i \in 1..NRows(df) :
            LET x == df.data[i][src]
                y == df_disp.data[i][dst]
            IN  /\ x.t = "int" => (y.t = "float" /\ y.n * 1000 = 1000 * x.n)
                /\ x.t = "float" => (y.t = "float" /\ y.n * 1000 = x.n)
                /\ x.t = "nan" => y = NaN
                /\ (x.t = "str" /\ \E p \in 1..Len(x.s) : ~IsDigit(x.s[p])) => y = x

\* C9: scale_to_bn never fails: a numeric cell becomes the cell divided by
\* 1000 as a float, a text cell that is no number stays as it is, and the two
\* conversion statements end the run only when their column is missing.
C9_ScaleNeverFails ==
    /\ ScaledColumn(EV_USD_m, EV_USD_bn)
    /\ ScaledColumn(EBITDA_USD_m, EBITDA_USD_bn)
    /\ failed_at = "scale_ev" => (err = "KeyError" /\ ~HasColumn(df, EV_USD_m))
    /\ failed_at = "scale_ebitda" => (err = "KeyError" /\ ~HasColumn(df, EBITDA_USD_m))

C9_Witness ==
    /\ pc = "select"
    /\ Column(df, EV_USD_m) = <<PyStr(<<"T", "B", "D">>), NaN>>
    /\ Column(df_disp, EV_USD_bn) = <<PyStr(<<"T", "B", "D">>), NaN>>
    /\ Column(df_disp, EBITDA_USD_bn) = <<PyFloat(500), PyFloat(100)>>

\* The median of the entries xs, none of them NaN (NaN when there is none).
MedianByRank(xs) ==
    LET n == Len(xs) IN
    IF n = 0 THEN NaN
    ELSE Mean2(OrderStat(xs, (n + 1) \div 2), OrderStat(xs, n \div 2 + 1))

\* The median over all the rows of a column, nothing filtered: undefined
\* (NaN) as soon as one entry is missing.
MedianOfAllRows(col) ==
    IF \E i \in DOMAIN col : col[i].t = "nan" THEN NaN
    ELSE MedianByRank([i \in DOMAIN col |-> AsFloat(col[i])])

\* The median over the rows of a column that are not missing; infinite
\* entries count.
MedianOfPresentRows(col) ==
    MedianByRank(SelectSeq([i \in DOMAIN col |-> AsFloat(col[i])],
                           LAMBDA v : v.t # "nan"))

\* C10 as stated: the first Key Takeaways bullet shows the medians of the
\* raw EV_EBITDA and PE columns over all rows, no missing value filtered.
C10_MedianOfAllRows ==
    Len(prs) >= 2 =>
        prs[2].lines[1] =
            "Median EV/EBITDA ~= " \o FormatF1(MedianOfAllRows(Column(df, EV_EBITDA)))
                \o "x; P/E ~= " \o FormatF1(MedianOfAllRows(Column(df, PE))) \o "x"

\* C10, amended: the first Key Takeaways bullet shows the medians of the
\* EV_EBITDA and PE columns over the rows whose value is not missing; infinite
\* values are kept (the Valuation Summary drops them too); EV_EBITDA
\* [10.0, 20.0] and PE [20.0, 40.0] give "15.0x" and "30.0x".
C10_MedianSkipsMissingOnly ==
    Len(prs) >= 2 =>
        /\ prs[2].lines[1] =
              "Median EV/EBITDA ~= " \o FormatF1(MedianOfPresentRows(Column(df, EV_EBITDA)))
                  \o "x; P/E ~= " \o FormatF1(MedianOfPresentRows(Column(df, PE))) \o "x"
        /\ df = Base(2) => prs[2].lines[1] = "Median EV/EBITDA ~= 15.0x; P/E ~= 30.0x"

C10_Witness ==
    /\ Len(prs) >= 2
    /\ Column(df, EV_EBITDA) = <<PyFloat(10000), NaN, PInf>>
    /\ prs[2].lines[1] = "Median EV/EBITDA ~= infx; P/E ~= 40.0x"

====
